---- MODULE Spec2Model ----
(***************************************************************************)
(* Roundus: a Spotify PKCE authorization-code relay (Express backend), the *)
(* React client (App.tsx) that exchanges the code and polls the current    *)
(* track, and the token helper library (utils/spotify.ts).                 *)
(*                                                                         *)
(* The repository holds three programs that share no state: the server    *)
(* process, the App page (which talks to the server) and a page using the  *)
(* library, which App.tsx does not import.  A behaviour of Spec is a run   *)
(* of one of them, named by the variable program.                          *)
(***************************************************************************)
EXTENDS Integers, Sequences, FiniteSets, Bags, TLC

(***************************************************************************)
(* Bounds of the model.                                                    *)
(***************************************************************************)
MaxParamLen == 2      \* longest query-parameter value, in characters
MaxInFlight == 2      \* concurrent /current-track requests of the App
MaxLoads == 3         \* page loads (navigations and reloads) of the App
MaxClockSteps == 2    \* advances of Date.now() in the library model
MaxCalls == 2         \* concurrent getCurrentlyPlaying invocations

VARIABLES
  program,         \* which program this run is of: "server", "App", "spotify.ts"
  \* backend
  relayReq,        \* the request the backend handled last
  relayOut,        \* what the handler did: responses sent, provider calls made
  \* browser, shared by App.tsx and utils/spotify.ts
  localStorage,    \* durable key-value storage
  sessionStorage,  \* per-tab key-value storage
  \* App.tsx
  url,             \* window.location: what follows the origin
  track, isLoading, isAuthenticated, accessToken,   \* React state of App
  intervalId,      \* the poll timer: None, or the closure it calls
  exchange,        \* the POST /exchange-token awaited by exchangeCodeForToken
  fetches,         \* bag of /current-track requests awaited by validateAndFetchTrack
  posts,           \* every POST /exchange-token body the App has sent
  loads,           \* page loads so far
  phase,           \* "load": mount effect not yet run; "mounted"
  appEv,           \* the App operation that ran last
  \* utils/spotify.ts
  now,             \* Date.now(), in clock steps
  calls,           \* bag of the getCurrentlyPlaying invocations awaiting something
  libExchange,     \* the exchangeCodeForToken invocation of the library
  libEv            \* the library operation that ran last

relayVars == <<relayReq, relayOut>>
storageVars == <<localStorage, sessionStorage>>
appVars == <<url, track, isLoading, isAuthenticated, accessToken, intervalId,
             exchange, fetches, posts, loads, phase, appEv>>
libVars == <<now, calls, libExchange, libEv>>
vars == <<program, relayVars, storageVars, appVars, libVars>>

(***************************************************************************)
(* Optional values: null/undefined is None, a present value v is Some(v).  *)
(***************************************************************************)
None == <<>>
Some(v) == <<v>>

\* JavaScript truthiness of an optional string held as an atom ("" is falsy)
TruthyStr(o) == o # None /\ o[1] # ""
\* JavaScript truthiness of an optional string held as a character sequence
TruthySeq(o) == o # None /\ o[1] # <<>>

(***************************************************************************)
(* Strings that travel through URLs are sequences of characters. "&" and   *)
(* "#" are the characters a query string treats specially.                 *)
(***************************************************************************)
Chars == {"a", "&", "#"}
ParamValues == UNION {[1..k -> Chars] : k \in 0..MaxParamLen}
OptParam == {None} \cup {Some(s) : s \in ParamValues}

\* encodeURIComponent, character by character ("%26" stands for the escape)
EncodeChar(c) == IF c = "&" THEN "%26" ELSE IF c = "#" THEN "%23" ELSE c
encodeURIComponent(s) == [i \in 1..Len(s) |-> EncodeChar(s[i])]
\* the percent-decoding URLSearchParams applies to names and values
DecodeChar(c) == IF c = "%26" THEN "&" ELSE IF c = "%23" THEN "#" ELSE c
decodeURIComponent(s) == [i \in 1..Len(s) |-> DecodeChar(s[i])]

\* index of the first occurrence of c in s, or Len(s)+1
FirstIndex(s, c) ==
  IF \E i \in 1..Len(s) : s[i] = c
  THEN CHOOSE i \in 1..Len(s) : s[i] = c /\ \A j \in 1..(i-1) : s[j] # c
  ELSE Len(s) + 1
Before(s, c) == SubSeq(s, 1, FirstIndex(s, c) - 1)
After(s, c) == SubSeq(s, FirstIndex(s, c) + 1, Len(s))

RECURSIVE SplitPairs(_)
SplitPairs(s) ==
  IF s = <<>> THEN <<>>
  ELSE <<Before(s, "&")>> \o SplitPairs(After(s, "&"))

\* new URLSearchParams(window.location.search).get(name): the search part
\* is what follows "?" up to the fragment; the first pair named `name` wins
URLSearchParamsGet(href, name) ==
  LET search == Before(After(href, "?"), "#")
      pairs == SplitPairs(search)
      hits == {i \in 1..Len(pairs) : Before(pairs[i], "=") = <<name>>}
  IN
  IF hits = {} THEN None
  ELSE LET i == CHOOSE k \in hits : \A j \in hits : k <= j
       IN  Some(decodeURIComponent(After(pairs[i], "=")))

(***************************************************************************)
(* Backend (Express server).  A handler maps a request and the outcome of  *)
(* its upstream call to the responses it sends and the provider calls it   *)
(* makes.                                                                  *)
(***************************************************************************)
NoBody == [kind |-> "none"]
Reply(status, location, body) ==
  [status |-> status, location |-> location, body |-> body]
Handled(responses, providerCalls) ==
  [responses |-> responses, providerCalls |-> providerCalls]

\* app.get('/login')
LoginHandler(query) ==
  IF ~TruthySeq(query.code_challenge) \/ ~TruthyStr(query.code_challenge_method)
  THEN Handled(<<Reply(400, None, [kind |-> "error", error |-> "Missing PKCE parameters"])>>, <<>>)
  ELSE Handled(<<Reply(302, Some(<<"authorize", "?", "code_challenge", "=">>
                                   \o encodeURIComponent(query.code_challenge[1])), NoBody)>>, <<>>)

\* a faulty variant: the error branch of /callback forwards nothing
CallbackHandler_dropsError(query) ==
  IF TruthySeq(query.error)
  THEN Handled(<<Reply(302, Some(<<>>), NoBody)>>, <<>>)
  ELSE IF ~TruthySeq(query.code)
  THEN Handled(<<Reply(302, Some(<<"?", "error", "=", "missing_code">>), NoBody)>>, <<>>)
  ELSE Handled(<<Reply(302, Some(<<"?", "code", "=">> \o query.code[1]), NoBody)>>, <<>>)

\* a faulty variant: /callback looks for the code before the error
CallbackHandler_codeFirst(query) ==
  IF TruthySeq(query.code)
  THEN Handled(<<Reply(302, Some(<<"?", "code", "=">> \o query.code[1]), NoBody)>>, <<>>)
  ELSE IF TruthySeq(query.error)
  THEN Handled(<<Reply(302, Some(<<"?", "error", "=">> \o encodeURIComponent(query.error[1])), NoBody)>>, <<>>)
  ELSE Handled(<<Reply(302, Some(<<"?", "error", "=", "missing_code">>), NoBody)>>, <<>>)

\* app.get('/callback'): the location is what follows FRONTEND_CALLBACK_URL
CallbackHandler(query) ==
  IF TruthySeq(query.error)
  THEN Handled(<<Reply(302, Some(<<"?", "error", "=">> \o encodeURIComponent(query.error[1])), NoBody)>>, <<>>)
  ELSE IF ~TruthySeq(query.code)
  THEN Handled(<<Reply(302, Some(<<"?", "error", "=", "missing_code">>), NoBody)>>, <<>>)
  ELSE Handled(<<Reply(302, Some(<<"?", "code", "=">> \o query.code[1]), NoBody)>>, <<>>)

\* outcomes of the provider token endpoint (axios.post(SPOTIFY_TOKEN_URL))
TokenOk(at, rt) ==
  [kind |-> "ok", status |-> 200,
   data |-> [kind |-> "tokens", access_token |-> at, expires_in |-> Some(3600), refresh_token |-> rt]]
\* an error has the response's body (data), which may be empty, and the
\* message axios gives the error; a transport failure has no response
ProviderError == [kind |-> "provider_error", error |-> "invalid_grant"]
EmptyBody == [kind |-> "empty", error |-> ""]
TokenHttpError(status, data) ==
  [kind |-> "http_error", status |-> status, data |-> data, message |-> "Request failed"]
TokenNetworkFailure ==
  [kind |-> "network", status |-> 0, data |-> EmptyBody, message |-> "ECONNREFUSED"]
ProviderTokenOutcomes ==
  {TokenOk(Some("AT1"), Some("RT1")), TokenOk(Some("AT2"), Some("RT1")),
   TokenHttpError(400, ProviderError), TokenHttpError(503, EmptyBody), TokenNetworkFailure}

\* error.response?.status || 500
ErrorStatus(outcome) == IF outcome.kind = "http_error" THEN outcome.status ELSE 500
\* error.response?.data || error.message
ErrorDetails(outcome) ==
  IF outcome.kind = "http_error" /\ outcome.data # EmptyBody
  THEN outcome.data
  ELSE [kind |-> "message", error |-> outcome.message]

\* a faulty variant: every failure of the exchange is answered 500
ExchangeTokenHandler_always500(body, outcome) ==
  IF ~TruthySeq(body.code) \/ ~TruthyStr(body.code_verifier)
  THEN Handled(<<Reply(400, None, [kind |-> "error", error |-> "Missing code or code_verifier in request body"])>>, <<>>)
  ELSE LET call == [endpoint |-> "token", grant_type |-> "authorization_code",
                    code |-> body.code, code_verifier |-> body.code_verifier]
       IN  IF outcome.kind = "ok"
           THEN Handled(<<Reply(200, None, outcome.data)>>, <<call>>)
           ELSE Handled(<<Reply(500, None,
                                [kind |-> "error", error |-> "Failed to exchange code for token",
                                 details |-> ErrorDetails(outcome)])>>, <<call>>)

\* a faulty variant: the parameter check of /exchange-token only looks at the code
ExchangeTokenHandler_noVerifierCheck(body, outcome) ==
  IF ~TruthySeq(body.code)
  THEN Handled(<<Reply(400, None, [kind |-> "error", error |-> "Missing code or code_verifier in request body"])>>, <<>>)
  ELSE LET call == [endpoint |-> "token", grant_type |-> "authorization_code",
                    code |-> body.code, code_verifier |-> body.code_verifier]
       IN  IF outcome.kind = "ok"
           THEN Handled(<<Reply(200, None, outcome.data)>>, <<call>>)
           ELSE Handled(<<Reply(ErrorStatus(outcome), None,
                                [kind |-> "error", error |-> "Failed to exchange code for token",
                                 details |-> ErrorDetails(outcome)])>>, <<call>>)

\* app.post('/exchange-token')
ExchangeTokenHandler(body, outcome) ==
  IF ~TruthySeq(body.code) \/ ~TruthyStr(body.code_verifier)
  THEN Handled(<<Reply(400, None, [kind |-> "error", error |-> "Missing code or code_verifier in request body"])>>, <<>>)
  ELSE LET call == [endpoint |-> "token", grant_type |-> "authorization_code",
                    code |-> body.code, code_verifier |-> body.code_verifier]
       IN  IF outcome.kind = "ok"
           THEN Handled(<<Reply(200, None, outcome.data)>>, <<call>>)
           ELSE Handled(<<Reply(ErrorStatus(outcome), None,
                                [kind |-> "error", error |-> "Failed to exchange code for token",
                                 details |-> ErrorDetails(outcome)])>>, <<call>>)

\* outcomes of the provider's currently-playing endpoint
Item(name, nArtists, nImages) == [name |-> name, nArtists |-> nArtists, nImages |-> nImages]
PlayingOk(status, item, isPlaying) ==
  [kind |-> "ok", status |-> status, item |-> item, is_playing |-> isPlaying]
PlayingHttpError(status) ==
  [kind |-> "http_error", status |-> status, item |-> None, is_playing |-> FALSE]
PlayingNetworkFailure ==
  [kind |-> "network", status |-> 0, item |-> None, is_playing |-> FALSE]
ProviderPlayingOutcomes ==
  {PlayingOk(204, None, FALSE), PlayingOk(200, None, FALSE),
   PlayingOk(200, Some(Item("Song", 1, 1)), TRUE),
   PlayingOk(200, Some(Item("Song", 1, 0)), TRUE),
   PlayingOk(200, Some(Item("", 1, 1)), FALSE),
   PlayingHttpError(401), PlayingHttpError(429), PlayingNetworkFailure}

\* a faulty variant: /current-track without the check for 204, an empty
\* body or a missing item, so that reading the item throws and answers 500
CurrentTrackHandler_noItemCheck(header, outcome) ==
  LET token == IF header # None /\ Len(header[1]) >= 2 THEN Some(header[1][2]) ELSE None
      call == [endpoint |-> "currently-playing", token |-> token]
  IN
  IF ~TruthyStr(token)
  THEN Handled(<<Reply(401, None, [kind |-> "error", error |-> "No token provided"])>>, <<>>)
  ELSE IF outcome.kind = "ok"
  THEN IF outcome.item = None \/ outcome.item[1].nArtists = 0 \/ outcome.item[1].nImages = 0
       THEN Handled(<<Reply(500, None, [kind |-> "error", error |-> "Spotify API error during track fetch"])>>, <<call>>)
       ELSE Handled(<<Reply(200, None,
                            [kind |-> "track", name |-> outcome.item[1].name, artist |-> "Artist",
                             album |-> "Album", albumArt |-> "url", isPlaying |-> outcome.is_playing])>>, <<call>>)
  ELSE Handled(<<Reply(IF outcome.kind = "http_error" THEN outcome.status ELSE 500, None,
                       [kind |-> "error", error |-> "Spotify API error during track fetch"])>>, <<call>>)

\* app.get('/current-track'); header is the Authorization header split on ' '
CurrentTrackHandler(header, outcome) ==
  LET token == IF header # None /\ Len(header[1]) >= 2 THEN Some(header[1][2]) ELSE None
      call == [endpoint |-> "currently-playing", token |-> token]
  IN
  IF ~TruthyStr(token)
  THEN Handled(<<Reply(401, None, [kind |-> "error", error |-> "No token provided"])>>, <<>>)
  ELSE IF outcome.kind = "ok"
  THEN IF outcome.status = 204 \/ outcome.item = None
       THEN Handled(<<Reply(204, None, NoBody)>>, <<call>>)
       ELSE LET item == outcome.item[1] IN
            \* item.artists[0].name and item.album.images[0].url throw a
            \* TypeError on an empty array; the catch answers 500
            IF item.nArtists = 0 \/ item.nImages = 0
            THEN Handled(<<Reply(500, None, [kind |-> "error", error |-> "Spotify API error during track fetch"])>>, <<call>>)
            ELSE Handled(<<Reply(200, None,
                                 [kind |-> "track", name |-> item.name, artist |-> "Artist",
                                  album |-> "Album", albumArt |-> "url", isPlaying |-> outcome.is_playing])>>, <<call>>)
  ELSE Handled(<<Reply(IF outcome.kind = "http_error" THEN outcome.status ELSE 500, None,
                       [kind |-> "error", error |-> "Spotify API error during track fetch"])>>, <<call>>)

(***************************************************************************)
(* The backend alone: each step handles one request.                       *)
(***************************************************************************)
CallbackQueries == [code : OptParam, error : OptParam]
LoginQueries == [code_challenge : {None, Some(<<"a">>)}, code_challenge_method : {None, Some("S256")}]
Verifiers == {"V1", "V2"}
ExchangeBodies == [code : {None, Some(<<>>), Some(<<"a">>)},
                   code_verifier : {None, Some("")} \cup {Some(v) : v \in Verifiers}]
Tokens == {"AT1", "AT2"}
AuthHeaders == {None, Some(<<"Bearer">>), Some(<<"Bearer", "">>)}
                 \cup {Some(<<"Bearer", t>>) : t \in Tokens}

RelayLogin ==
  /\ program = "server"
  /\ \E q \in LoginQueries :
       /\ relayReq' = [route |-> "/login", input |-> q, upstream |-> None]
       /\ relayOut' = LoginHandler(q)
  /\ UNCHANGED <<program, storageVars, appVars, libVars>>

RelayCallback ==
  /\ program = "server"
  /\ \E q \in CallbackQueries :
       /\ relayReq' = [route |-> "/callback", input |-> q, upstream |-> None]
       /\ relayOut' = CallbackHandler(q)
  /\ UNCHANGED <<program, storageVars, appVars, libVars>>

RelayExchangeToken ==
  /\ program = "server"
  /\ \E b \in ExchangeBodies, o \in ProviderTokenOutcomes :
       /\ relayReq' = [route |-> "/exchange-token", input |-> b, upstream |-> Some(o)]
       /\ relayOut' = ExchangeTokenHandler(b, o)
  /\ UNCHANGED <<program, storageVars, appVars, libVars>>

RelayCurrentTrack ==
  /\ program = "server"
  /\ \E h \in AuthHeaders, o \in ProviderPlayingOutcomes :
       /\ relayReq' = [route |-> "/current-track", input |-> h, upstream |-> Some(o)]
       /\ relayOut' = CurrentTrackHandler(h, o)
  /\ UNCHANGED <<program, storageVars, appVars, libVars>>

RelayNext == RelayLogin \/ RelayCallback \/ RelayExchangeToken \/ RelayCurrentTrack

(***************************************************************************)
(* App.tsx.  The handlers are functions of the App's state s (storage,     *)
(* location, React state, requests awaited); an action applies one handler *)
(* and commits the result, which re-renders and runs the interval effect.  *)
(***************************************************************************)
AppState ==
  [localStorage |-> localStorage, sessionStorage |-> sessionStorage, url |-> url,
   track |-> track, isLoading |-> isLoading, isAuthenticated |-> isAuthenticated,
   accessToken |-> accessToken, exchange |-> exchange, fetches |-> fetches,
   posts |-> posts]

\* what setItem stores for a value: String(undefined) is "undefined"
StoredString(o) == IF o = None THEN Some("undefined") ELSE o

\* clearAuth
clearAuth(s) ==
  [s EXCEPT !.localStorage.spotify_access_token = None,
            !.sessionStorage.spotify_code_verifier = None,
            !.accessToken = None,
            !.isAuthenticated = FALSE,
            !.track = None]

\* validateAndFetchTrack up to its await: closure is the isLoading its
\* render captured, site the place it was called from
validateAndFetchTrack(s, token, closure, site) ==
  IF ~TruthyStr(token)
  THEN [clearAuth(s) EXCEPT !.isLoading = FALSE]
  ELSE [s EXCEPT !.fetches = @ (+) SetToBag({[header |-> Some(<<"Bearer", token[1]>>),
                                               isLoading |-> closure, site |-> site]})]

IsOk(status) == status >= 200 /\ status <= 299

\* a faulty variant: a 401 returns without clearing anything
validateAndFetchTrackResume_keepsOn401(s, f, resp) ==
  LET tried ==
        IF resp = None THEN clearAuth(s)
        ELSE IF resp[1].status = 401 THEN s
        ELSE IF resp[1].status = 204
             THEN [s EXCEPT !.track = None, !.isAuthenticated = TRUE]
        ELSE IF ~IsOk(resp[1].status) THEN clearAuth(s)
        ELSE IF resp[1].body.kind = "track"
             THEN IF resp[1].body.name # ""
                  THEN [s EXCEPT !.track = Some(resp[1].body), !.isAuthenticated = TRUE]
                  ELSE [s EXCEPT !.track = None, !.isAuthenticated = TRUE]
        ELSE [s EXCEPT !.track = None, !.isAuthenticated = TRUE]
  IN  IF f.isLoading THEN [tried EXCEPT !.isLoading = FALSE] ELSE tried

\* validateAndFetchTrack from the response on: resp is None when fetch
\* rejected, else the reply
validateAndFetchTrackResume(s, f, resp) ==
  LET tried ==
        IF resp = None THEN clearAuth(s)
        ELSE IF resp[1].status = 401 THEN clearAuth(s)
        ELSE IF resp[1].status = 204
             THEN [s EXCEPT !.track = None, !.isAuthenticated = TRUE]
        ELSE IF ~IsOk(resp[1].status) THEN clearAuth(s)
        ELSE IF resp[1].body.kind = "track"
             THEN IF resp[1].body.name # ""
                  THEN [s EXCEPT !.track = Some(resp[1].body), !.isAuthenticated = TRUE]
                  ELSE [s EXCEPT !.track = None, !.isAuthenticated = TRUE]
        ELSE [s EXCEPT !.track = None, !.isAuthenticated = TRUE]
  IN  IF f.isLoading THEN [tried EXCEPT !.isLoading = FALSE] ELSE tried

\* a faulty variant: without a verifier the exchange is given up and what
\* is stored is left as it was
exchangeCodeForToken_keepsToken(s, authCode) ==
  LET verifier == s.sessionStorage.spotify_code_verifier
      body == [code |-> Some(authCode), code_verifier |-> verifier]
  IN  IF ~TruthyStr(verifier)
      THEN [s EXCEPT !.isLoading = FALSE]
      ELSE [s EXCEPT !.exchange = Some(body), !.posts = Append(@, body)]

\* exchangeCodeForToken (App.tsx) up to its await
exchangeCodeForToken(s, authCode) ==
  LET verifier == s.sessionStorage.spotify_code_verifier
      body == [code |-> Some(authCode), code_verifier |-> verifier]
  IN  IF ~TruthyStr(verifier)
      THEN [clearAuth(s) EXCEPT !.isLoading = FALSE]
      ELSE [s EXCEPT !.exchange = Some(body), !.posts = Append(@, body)]

\* exchangeCodeForToken (App.tsx) from the response on; the mount render's
\* isLoading (true) is what its validateAndFetchTrack captured
exchangeCodeForTokenResume(s, resp) ==
  LET s0 == [s EXCEPT !.exchange = None] IN
  IF resp = None THEN clearAuth(s0)
  ELSE LET s1 == [s0 EXCEPT !.url = <<>>, !.sessionStorage.spotify_code_verifier = None] IN
       IF ~IsOk(resp[1].status) THEN clearAuth(s1)
       ELSE LET access_token == resp[1].body.access_token
                s2 == [s1 EXCEPT !.localStorage.spotify_access_token = StoredString(access_token),
                                 !.accessToken = access_token,
                                 !.isAuthenticated = TRUE]
            IN  validateAndFetchTrack(s2, access_token, TRUE, "exchange")

\* the mount effect
MountEffect(s) ==
  LET code == URLSearchParamsGet(s.url, "code")
      storedToken == s.localStorage.spotify_access_token
  IN  IF TruthySeq(code) THEN exchangeCodeForToken(s, code[1])
      ELSE IF TruthyStr(storedToken)
      THEN validateAndFetchTrack([s EXCEPT !.accessToken = storedToken, !.isAuthenticated = TRUE],
                                 storedToken, TRUE, "mount")
      ELSE [s EXCEPT !.isAuthenticated = FALSE, !.isLoading = FALSE]

\* a faulty variant: the interval effect never clears its timer
IntervalEffect_neverCleared(prev, s, t) ==
  IF t.isAuthenticated /\ TruthyStr(t.accessToken)
  THEN Some([token |-> t.accessToken, isLoading |-> t.isLoading])
  ELSE prev

\* the interval effect, deps [isAuthenticated, accessToken]: from the timer
\* prev and state s to the timer after the render of state t
IntervalEffect(prev, s, t) ==
  IF s.isAuthenticated = t.isAuthenticated /\ s.accessToken = t.accessToken
  THEN prev
  ELSE IF t.isAuthenticated /\ TruthyStr(t.accessToken)
       THEN Some([token |-> t.accessToken, isLoading |-> t.isLoading])
       ELSE None

\* a fresh document: React state as useState initialises it, nothing awaited
PageLoad(s, u) ==
  [s EXCEPT !.url = u, !.track = None, !.isLoading = TRUE, !.isAuthenticated = FALSE,
            !.accessToken = None, !.exchange = None, !.fetches = EmptyBag]

Commit(t, ev) ==
  /\ localStorage' = t.localStorage
  /\ sessionStorage' = t.sessionStorage
  /\ url' = t.url
  /\ track' = t.track
  /\ isLoading' = t.isLoading
  /\ isAuthenticated' = t.isAuthenticated
  /\ accessToken' = t.accessToken
  /\ exchange' = t.exchange
  /\ fetches' = t.fetches
  /\ posts' = t.posts
  /\ appEv' = ev
  /\ UNCHANGED <<program, relayVars, libVars>>

\* the record of an operation: what ran, the status it saw, the call site of
\* the request answered, and whether a track was shown and a token was
\* stored when it ran
Ev(op, status, site) ==
  [op |-> op, status |-> status, site |-> site, hadTrack |-> track # None,
   hadToken |-> localStorage.spotify_access_token # None]

\* handleLogin, up to the navigation to the backend's /login
handleLogin(s, verifier) ==
  [s EXCEPT !.sessionStorage.spotify_code_verifier = Some(verifier)]

\* what the provider sends the browser to /callback with; the provider
\* issues a new code with every authorization, here one per page load left
FreshCode(n) == [i \in 1..n |-> "a"]
ProviderRedirects(n) == [code : {None, Some(FreshCode(n))}, error : {None, Some(<<"a">>)}]
\* locations a user may open the App at (a link, the history, a bookmark)
VisitUrls == {<<>>, <<"?", "code", "=">>, <<"?", "code", "=", "a">>}

FetchReplies(f) ==
  {None} \cup {Some(CurrentTrackHandler(f.header, o).responses[1]) : o \in ProviderPlayingOutcomes}
ExchangeReplies(body) ==
  {None} \cup {Some(ExchangeTokenHandler(body, o).responses[1]) : o \in ProviderTokenOutcomes}
StatusOf(resp) == IF resp = None THEN 0 ELSE resp[1].status

Mount ==
  /\ program = "App"
  /\ phase = "load"
  /\ LET t == MountEffect(AppState) IN
       /\ Commit(t, Ev("mount", 0, ""))
       /\ intervalId' = IntervalEffect(intervalId, AppState, t)
  /\ phase' = "mounted"
  /\ UNCHANGED loads

ExchangeResponse ==
  /\ program = "App"
  /\ phase = "mounted"
  /\ exchange # None
  /\ \E resp \in ExchangeReplies(exchange[1]) :
       LET t == exchangeCodeForTokenResume(AppState, resp) IN
       /\ Commit(t, Ev("exchangeResponse", StatusOf(resp), ""))
       /\ intervalId' = IntervalEffect(intervalId, AppState, t)
  /\ UNCHANGED <<loads, phase>>

PollTick ==
  /\ program = "App"
  /\ phase = "mounted"
  /\ intervalId # None
  /\ BagCardinality(fetches) < MaxInFlight
  /\ LET t == validateAndFetchTrack(AppState, intervalId[1].token, intervalId[1].isLoading, "poll") IN
       /\ Commit(t, Ev("pollTick", 0, ""))
       /\ intervalId' = IntervalEffect(intervalId, AppState, t)
  /\ UNCHANGED <<loads, phase>>

FetchResponse ==
  /\ program = "App"
  /\ phase = "mounted"
  /\ \E f \in BagToSet(fetches) : \E resp \in FetchReplies(f) :
       LET s0 == [AppState EXCEPT !.fetches = @ (-) SetToBag({f})]
           t == validateAndFetchTrackResume(s0, f, resp)
       IN  /\ Commit(t, Ev("fetchResponse", StatusOf(resp), f.site))
           /\ intervalId' = IntervalEffect(intervalId, AppState, t)
  /\ UNCHANGED <<loads, phase>>

\* the Disconnect button, rendered when not loading and authenticated
Disconnect ==
  /\ program = "App"
  /\ phase = "mounted"
  /\ ~isLoading /\ isAuthenticated
  /\ LET t == clearAuth(AppState) IN
       /\ Commit(t, Ev("disconnect", 0, ""))
       /\ intervalId' = IntervalEffect(intervalId, AppState, t)
  /\ UNCHANGED <<loads, phase>>

\* the Login button, rendered when not loading and not authenticated; the
\* browser leaves for /login, the provider and /callback, and loads the
\* App again at the location /callback redirects to
HandleLogin ==
  /\ program = "App"
  /\ phase = "mounted"
  /\ ~isLoading /\ ~isAuthenticated
  /\ loads < MaxLoads
  /\ \E v \in Verifiers, q \in ProviderRedirects(loads) :
       Commit(PageLoad(handleLogin(AppState, v), CallbackHandler(q).responses[1].location[1]),
              Ev("handleLogin", 0, ""))
  /\ intervalId' = None
  /\ loads' = loads + 1
  /\ phase' = "load"

Reload ==
  /\ program = "App"
  /\ loads < MaxLoads
  /\ Commit(PageLoad(AppState, url), Ev("reload", 0, ""))
  /\ intervalId' = None
  /\ loads' = loads + 1
  /\ phase' = "load"

Visit ==
  /\ program = "App"
  /\ loads < MaxLoads
  /\ \E u \in VisitUrls : Commit(PageLoad(AppState, u), Ev("visit", 0, ""))
  /\ intervalId' = None
  /\ loads' = loads + 1
  /\ phase' = "load"

AppNext ==
  \/ Mount \/ ExchangeResponse \/ PollTick \/ FetchResponse
  \/ Disconnect \/ HandleLogin \/ Reload \/ Visit

(***************************************************************************)
(* utils/spotify.ts.  Date.now() is in milliseconds; token_expiry is the   *)
(* string of a number, or "NaN" when expires_in was undefined.             *)
(***************************************************************************)
NumString(n) == [nan |-> FALSE, n |-> n]
NaNString == [nan |-> TRUE, n |-> 0]
\* String(Date.now() + expires_in * 1000)
ExpiryString(t, expires_in) ==
  IF expires_in = None THEN NaNString ELSE NumString(t + expires_in[1] * 1000)
\* parseInt of a stored expiry; a comparison with NaN is false
parseInt(str) == str
GreaterThan(t, parsed) == ~parsed.nan /\ t > parsed.n

\* outcomes of POST ${BACKEND_URL}/api/spotify/token and of the provider's
\* currently-playing endpoint, as axios reports them
LibTokenOk(at, rt, expires_in) ==
  [kind |-> "ok", status |-> 200,
   data |-> [access_token |-> at, refresh_token |-> rt, expires_in |-> expires_in]]
LibFailure(kind, status) ==
  [kind |-> kind, status |-> status,
   data |-> [access_token |-> None, refresh_token |-> None, expires_in |-> None]]
LibExchangeOutcomes ==
  {LibTokenOk(Some("AT1"), Some("RT1"), Some(1)),
   LibFailure("http_error", 400), LibFailure("network", 0)}
LibRefreshOutcomes ==
  {LibTokenOk(Some("AT2"), None, Some(1)), LibTokenOk(Some("AT2"), Some("RT2"), Some(1)),
   LibFailure("http_error", 400), LibFailure("network", 0)}
LibPlayingOutcomes ==
  {[kind |-> "ok", status |-> 200], [kind |-> "http_error", status |-> 401],
   [kind |-> "http_error", status |-> 500], [kind |-> "network", status |-> 0]}

\* generateCodeVerifier
generateCodeVerifier(store, codeVerifier) ==
  [store EXCEPT !.code_verifier = Some(codeVerifier)]

\* exchangeCodeForToken (utils/spotify.ts) up to its await: the request it
\* sends, or None when it throws first
libExchangeCodeForToken(store, code) ==
  IF ~TruthyStr(store.code_verifier) THEN None
  ELSE Some([code |-> Some(code), code_verifier |-> store.code_verifier])

\* exchangeCodeForToken (utils/spotify.ts) from the response on
libExchangeCodeForTokenResume(store, t, resp) ==
  IF resp.kind = "ok"
  THEN [threw |-> FALSE,
        store |-> [store EXCEPT !.access_token = StoredString(resp.data.access_token),
                                !.refresh_token = StoredString(resp.data.refresh_token),
                                !.token_expiry = Some(ExpiryString(t, resp.data.expires_in))]]
  ELSE [threw |-> TRUE, store |-> store]

\* a faulty variant: a refresh stores the response's refresh_token, as the exchange does
refreshAccessTokenResume_storesRefreshToken(store, t, resp) ==
  IF resp.kind = "ok"
  THEN [threw |-> FALSE, value |-> resp.data.access_token,
        store |-> [store EXCEPT !.access_token = StoredString(resp.data.access_token),
                                !.refresh_token = StoredString(resp.data.refresh_token),
                                !.token_expiry = Some(ExpiryString(t, resp.data.expires_in))]]
  ELSE [threw |-> TRUE, value |-> None, store |-> store]

\* refreshAccessToken from the response on: what it returns or that it threw
refreshAccessTokenResume(store, t, resp) ==
  IF resp.kind = "ok"
  THEN [threw |-> FALSE, value |-> resp.data.access_token,
        store |-> [store EXCEPT !.access_token = StoredString(resp.data.access_token),
                                !.token_expiry = Some(ExpiryString(t, resp.data.expires_in))]]
  ELSE [threw |-> TRUE, value |-> None, store |-> store]

\* CallbackHandler.tsx: GET /callback?code= answers with the redirect to the
\* App's origin, whose page has no access_token; setItem stores String(it)
CallbackHandlerComponent(store, reply) ==
  [store EXCEPT !.access_token =
     StoredString(IF reply.body.kind = "tokens" THEN reply.body.access_token ELSE None)]

\* an invocation of getCurrentlyPlaying: where it awaits (pc), the
\* access_token it read, the refreshAccessToken calls it has made, the token
\* of the protected request it sent last, and how it ended (result)
NewCall(store) ==
  [pc |-> "start", access_token |-> store.access_token, refreshes |-> 0,
   sent |-> None, result |-> ""]
Ended(call, result) == [call EXCEPT !.pc = "done", !.result = result]
SendGet(call, token, pc) == [call EXCEPT !.pc = pc, !.sent = token]

\* refreshAccessToken up to its await, called by getCurrentlyPlaying: it
\* throws when no refresh token is stored, else posts it and awaits at pc
CallRefresh(call, store, pc) ==
  IF ~TruthyStr(store.refresh_token)
  THEN Ended([call EXCEPT !.refreshes = @ + 1], "threw")
  ELSE [call EXCEPT !.pc = pc, !.refreshes = @ + 1]

\* getCurrentlyPlaying up to its first await
getCurrentlyPlaying(store, t) ==
  LET call == NewCall(store)
      token_expiry == store.token_expiry
  IN  IF ~TruthyStr(call.access_token) THEN Ended(call, "threw")
      ELSE IF token_expiry # None /\ GreaterThan(t, parseInt(token_expiry[1]))
      THEN CallRefresh(call, store, "refresh1")
      ELSE SendGet(call, call.access_token, "request1")

\* getCurrentlyPlaying when a refreshAccessToken it awaits has settled
getCurrentlyPlayingRefreshed(call, refreshed) ==
  IF refreshed.threw THEN Ended(call, "threw")
  ELSE IF call.pc = "refresh1"
  THEN SendGet(call, call.access_token, "request1")
  ELSE SendGet(call, StoredString(refreshed.value), "request2")

\* getCurrentlyPlaying when a protected request it awaits has settled
getCurrentlyPlayingAnswered(call, store, resp) ==
  IF resp.kind = "ok" THEN Ended(call, "data")
  ELSE IF call.pc = "request1"
  THEN IF resp.kind = "http_error" /\ resp.status = 401
       THEN CallRefresh(call, store, "refresh2")
       ELSE Ended(call, "null")
  ELSE Ended(call, "threw")

\* the record of a library operation: what ran, the status it saw, whether a
\* refresh response omitted refresh_token, the invocation as the step left it
LibEv(op, status, omitted, call) ==
  [op |-> op, status |-> status, omitted |-> omitted, call |-> call]
NoCall == Ended(NewCall([access_token |-> None]), "")

\* the invocations still awaiting something, with `call` put in place of `was`
Awaiting(was, call) ==
  LET rest == IF was = NoCall THEN calls ELSE calls (-) SetToBag({was})
  IN  IF call.pc = "done" THEN rest ELSE rest (+) SetToBag({call})

LibUnchanged == UNCHANGED <<program, relayVars, sessionStorage, appVars>>

\* getSpotifyAuthUrl
LibGetSpotifyAuthUrl ==
  /\ program = "spotify.ts"
  /\ localStorage' = generateCodeVerifier(localStorage, "V1")
  /\ libEv' = LibEv("getSpotifyAuthUrl", 0, FALSE, NoCall)
  /\ UNCHANGED <<now, calls, libExchange>>
  /\ LibUnchanged

LibExchangeStart ==
  /\ program = "spotify.ts"
  /\ libExchange = None
  /\ libExchange' = libExchangeCodeForToken(localStorage, <<"a">>)
  /\ libEv' = LibEv(IF libExchange' = None THEN "exchangeThrew" ELSE "exchangeSent", 0, FALSE, NoCall)
  /\ UNCHANGED <<now, calls, localStorage>>
  /\ LibUnchanged

LibExchangeResponse ==
  /\ program = "spotify.ts"
  /\ libExchange # None
  /\ \E resp \in LibExchangeOutcomes :
       LET r == libExchangeCodeForTokenResume(localStorage, now, resp) IN
       /\ localStorage' = r.store
       /\ libEv' = LibEv(IF r.threw THEN "exchangeFailed" ELSE "exchangeOk", resp.status, FALSE, NoCall)
  /\ libExchange' = None
  /\ UNCHANGED <<now, calls>>
  /\ LibUnchanged

\* CallbackHandler.tsx with a code in the location: the request gets the
\* backend's answer, or fails and stores nothing
LibCallbackHandler ==
  /\ program = "spotify.ts"
  /\ \E failed \in BOOLEAN :
       localStorage' =
         IF failed THEN localStorage
         ELSE CallbackHandlerComponent(localStorage,
                CallbackHandler([code |-> Some(<<"a">>), error |-> None]).responses[1])
  /\ libEv' = LibEv("CallbackHandler", 0, FALSE, NoCall)
  /\ UNCHANGED <<now, calls, libExchange>>
  /\ LibUnchanged

LibClock ==
  /\ program = "spotify.ts"
  /\ now < MaxClockSteps * 1000
  /\ now' = now + 1000
  /\ libEv' = LibEv("clock", 0, FALSE, NoCall)
  /\ UNCHANGED <<calls, libExchange, localStorage>>
  /\ LibUnchanged

GetCurrentlyPlaying ==
  /\ program = "spotify.ts"
  /\ BagCardinality(calls) < MaxCalls
  /\ LET call == getCurrentlyPlaying(localStorage, now) IN
       /\ calls' = Awaiting(NoCall, call)
       /\ libEv' = LibEv("getCurrentlyPlaying", 0, FALSE, call)
  /\ UNCHANGED <<now, libExchange, localStorage>>
  /\ LibUnchanged

RefreshResponse ==
  /\ program = "spotify.ts"
  /\ \E was \in BagToSet(calls) : \E resp \in LibRefreshOutcomes :
       /\ was.pc \in {"refresh1", "refresh2"}
       /\ LET r == refreshAccessTokenResume(localStorage, now, resp)
              call == getCurrentlyPlayingRefreshed(was, r)
          IN  /\ localStorage' = r.store
              /\ calls' = Awaiting(was, call)
              /\ libEv' = LibEv(IF r.threw THEN "refreshFailed" ELSE "refreshOk", resp.status,
                                ~r.threw /\ resp.data.refresh_token = None, call)
  /\ UNCHANGED <<now, libExchange>>
  /\ LibUnchanged

PlayingResponse ==
  /\ program = "spotify.ts"
  /\ \E was \in BagToSet(calls) : \E resp \in LibPlayingOutcomes :
       /\ was.pc \in {"request1", "request2"}
       /\ LET call == getCurrentlyPlayingAnswered(was, localStorage, resp) IN
            /\ calls' = Awaiting(was, call)
            /\ libEv' = LibEv("playingResponse", resp.status, FALSE, call)
  /\ UNCHANGED <<now, libExchange, localStorage>>
  /\ LibUnchanged

LibNext ==
  \/ LibGetSpotifyAuthUrl \/ LibExchangeStart \/ LibExchangeResponse \/ LibCallbackHandler
  \/ LibClock \/ GetCurrentlyPlaying \/ RefreshResponse \/ PlayingResponse

(***************************************************************************)
(* Initial states and specifications.                                      *)
(***************************************************************************)
RelayInit ==
  /\ relayReq = [route |-> "none", input |-> None, upstream |-> None]
  /\ relayOut = Handled(<<>>, <<>>)

StorageInit ==
  /\ localStorage = [spotify_access_token |-> None, code_verifier |-> None,
                     access_token |-> None, refresh_token |-> None, token_expiry |-> None]
  /\ sessionStorage = [spotify_code_verifier |-> None]

AppInit ==
  /\ url = <<>>
  /\ track = None
  /\ isLoading = TRUE
  /\ isAuthenticated = FALSE
  /\ accessToken = None
  /\ intervalId = None
  /\ exchange = None
  /\ fetches = EmptyBag
  /\ posts = <<>>
  /\ loads = 1
  /\ phase = "load"
  /\ appEv = [op |-> "init", status |-> 0, site |-> "", hadTrack |-> FALSE, hadToken |-> FALSE]

LibInit ==
  /\ now = 0
  /\ calls = EmptyBag
  /\ libExchange = None
  /\ libEv = LibEv("init", 0, FALSE, NoCall)

Init ==
  /\ program \in {"server", "App", "spotify.ts"}
  /\ RelayInit /\ StorageInit /\ AppInit /\ LibInit

Next == RelayNext \/ AppNext \/ LibNext

Spec == Init /\ [][Next]_vars

(***************************************************************************)
(* Properties of App.tsx (checked under Spec).                             *)
(***************************************************************************)
Got401 == appEv.op = "fetchResponse" /\ appEv.status = 401

Invalid ==
  /\ localStorage.spotify_access_token = None
  /\ sessionStorage.spotify_code_verifier = None
  /\ accessToken = None
  /\ ~isAuthenticated
  /\ track = None

\* C1: whenever validateAndFetchTrack has just received a 401 from
\* /current-track, whatever the call site and whatever was shown, the App is
\* Invalid: spotify_access_token and spotify_code_verifier are absent,
\* accessToken is null, isAuthenticated is false and track is null.
C1_Unauthorized401IsInvalid == Got401 => Invalid

\* a 401 answered a poll while a track was shown
C1_Witness == Got401 /\ appEv.site = "poll" /\ appEv.hadTrack /\ Invalid

\* C2: once clearAuth has run (a 401, or Disconnect) the poll timer is
\* cleared along with the track and the token; the timer is only started
\* again by a successful exchange or by a mount that finds a stored token,
\* and a token only gets into storage by a successful exchange.
C2_PollingStopsOnInvalid ==
  /\ []((Got401 \/ appEv.op = "disconnect") =>
          (intervalId = None /\ track = None /\ accessToken = None
           /\ localStorage.spotify_access_token = None))
  /\ [][(intervalId = None /\ intervalId' # None) =>
          \/ appEv'.op = "exchangeResponse" /\ IsOk(appEv'.status)
          \/ appEv'.op = "mount" /\ localStorage.spotify_access_token # None]_vars
  /\ [][(localStorage.spotify_access_token = None /\ localStorage'.spotify_access_token # None) =>
          appEv'.op = "exchangeResponse" /\ IsOk(appEv'.status)]_vars
  /\ [][appEv'.op = "pollTick" => intervalId # None]_vars

\* the second of two polls got a 401 while the first one's track was shown
\* and a further request was still awaited: the timer is gone
C2_Witness ==
  /\ Got401 /\ appEv.site = "poll" /\ appEv.hadTrack
  /\ intervalId = None /\ fetches # EmptyBag

(***************************************************************************)
(* Properties of utils/spotify.ts.                                         *)
(***************************************************************************)
LibTokensCleared ==
  /\ localStorage.access_token = None
  /\ localStorage.refresh_token = None
  /\ localStorage.token_expiry = None

\* C3: when the protected request of getCurrentlyPlaying has just returned
\* 401, the stored token set is cleared and the invocation has ended without
\* starting a further request.
C3_Lib401ForcesInvalid ==
  (libEv.op = "playingResponse" /\ libEv.status = 401) =>
    (LibTokensCleared /\ libEv.call.pc = "done")

\* C4: no invocation of getCurrentlyPlaying calls refreshAccessToken more
\* than once.
C4_AtMostOneRefreshPerCall ==
  /\ libEv.call.refreshes <= 1
  /\ \A call \in BagToSet(calls) : call.refreshes <= 1

\* C5: an invocation of getCurrentlyPlaying that found an access token and a
\* numeric expiry starts with a refresh exactly when now >= expiry_instant.
C5_RefreshIffExpired ==
  (/\ libEv.op = "getCurrentlyPlaying"
   /\ TruthyStr(localStorage.access_token)
   /\ localStorage.token_expiry # None
   /\ ~localStorage.token_expiry[1].nan) =>
    ((now >= localStorage.token_expiry[1].n) <=> (libEv.call.refreshes = 1))

\* a refreshAccessToken call has just failed: its request was refused or did
\* not get through, or it threw because no refresh token is stored
RefreshJustFailed ==
  \/ libEv.op = "refreshFailed"
  \/ libEv.op = "getCurrentlyPlaying" /\ libEv.call.result = "threw" /\ libEv.call.refreshes = 1

\* C6: when a refresh attempt has just failed, access token, refresh token,
\* expiry and verifier are all gone from storage and the invocation has
\* ended without a protected request.
C6_RefreshFailureTearsDown ==
  RefreshJustFailed =>
    (LibTokensCleared /\ localStorage.code_verifier = None /\ libEv.call.pc = "done")

\* C7: a successful refreshAccessToken whose response omits refresh_token
\* leaves the stored refresh token as it was.
C7_RefreshKeepsRefreshToken ==
  [][(libEv'.op = "refreshOk" /\ libEv'.omitted) =>
       localStorage'.refresh_token = localStorage.refresh_token]_vars

\* the second refresh of one invocation succeeded without a refresh_token
\* in its response, and the stored one is still the exchange's
C7_Witness ==
  /\ libEv.op = "refreshOk" /\ libEv.omitted
  /\ libEv.call.refreshes = 2
  /\ localStorage.refresh_token = Some("RT1")

(***************************************************************************)
(* Properties of the exchange and of the relay.                            *)
(***************************************************************************)
ExchangeRequestLacksParameter ==
  /\ relayReq.route = "/exchange-token"
  /\ ~TruthySeq(relayReq.input.code) \/ ~TruthyStr(relayReq.input.code_verifier)

\* C8: POST /exchange-token without a code or without a (non-empty)
\* code_verifier is answered 400 with no call to the provider; every exchange
\* request the App has sent, and the one the library awaits, carries a
\* non-empty verifier.
C8_NoExchangeWithoutVerifier ==
  /\ ExchangeRequestLacksParameter =>
       (/\ relayOut.providerCalls = <<>>
        /\ Len(relayOut.responses) = 1
        /\ relayOut.responses[1].status = 400)
  /\ \A i \in 1..Len(posts) : TruthyStr(posts[i].code_verifier)
  /\ exchange # None => TruthyStr(exchange[1].code_verifier)
  /\ libExchange # None => TruthyStr(libExchange[1].code_verifier)
  /\ libEv.op = "exchangeThrew" => (libExchange = None /\ ~TruthyStr(localStorage.code_verifier))

\* the backend got a code with an empty code_verifier and answered 400
C8_Witness ==
  /\ relayReq.route = "/exchange-token"
  /\ TruthySeq(relayReq.input.code)
  /\ relayReq.input.code_verifier = Some("")
  /\ relayOut.responses[1].status = 400

\* C9: GET /callback is answered by exactly one redirect and makes no
\* provider call; the redirect's location carries a code or an error query
\* parameter, and a non-empty error parameter whenever the request carried
\* an error or no code.
C9_CallbackAlwaysRedirects ==
  relayReq.route = "/callback" =>
    /\ Len(relayOut.responses) = 1
    /\ relayOut.responses[1].status = 302
    /\ relayOut.responses[1].location # None
    /\ \/ URLSearchParamsGet(relayOut.responses[1].location[1], "code") # None
       \/ URLSearchParamsGet(relayOut.responses[1].location[1], "error") # None
    /\ (TruthySeq(relayReq.input.error) \/ ~TruthySeq(relayReq.input.code)) =>
         TruthySeq(URLSearchParamsGet(relayOut.responses[1].location[1], "error"))
    /\ relayOut.providerCalls = <<>>

\* the provider's error, with characters a URL reserves, reached the client
C9_Witness ==
  /\ relayReq.route = "/callback"
  /\ relayReq.input.error = Some(<<"a", "&">>)
  /\ URLSearchParamsGet(relayOut.responses[1].location[1], "error") = Some(<<"a", "&">>)

\* C10: once an exchange request has completed, with success, an error
\* status or a transport failure, the verifier it used is gone from client
\* storage, at both call sites.
C10_VerifierDestroyedAfterExchange ==
  /\ appEv.op = "exchangeResponse" => sessionStorage.spotify_code_verifier = None
  /\ libEv.op \in {"exchangeOk", "exchangeFailed"} => localStorage.code_verifier = None

\* C11: over any sequence of page loads and reloads, the App sends at most
\* one POST /exchange-token for an authorization code: no two of the
\* requests it has sent carry the same code.
C11_CodeExchangedAtMostOnce ==
  \A i, j \in 1..Len(posts) : posts[i].code = posts[j].code => i = j

\* the refreshAccessToken requests that have been sent and not yet answered
RefreshesInFlight ==
  LET refreshing == {c \in BagToSet(calls) : c.pc \in {"refresh1", "refresh2"}}
  IN  BagCardinality([c \in refreshing |-> CopiesIn(c, calls)])

\* C12: at most one refresh is in flight at any time: an invocation of
\* getCurrentlyPlaying made while an earlier invocation's refresh is still
\* outstanding starts no second refreshAccessToken request.
C12_AtMostOneRefreshInFlight == RefreshesInFlight <= 1

\* a poll's request has just failed for a cause other than Unauthorized: an
\* error status that is not 401, or no response at all (status 0)
TransientPollFailure(ev) ==
  /\ ev.op = "fetchResponse"
  /\ ev.site = "poll"
  /\ ev.status # 401
  /\ ~IsOk(ev.status)

\* C13: a poll tick that fails with a non-401 error status or a transport
\* failure changes nothing of the session: the App stays authenticated, the
\* token stays in memory and in storage, and the poll timer keeps running.
C13_TransientFailureKeepsSession ==
  [][TransientPollFailure(appEv') =>
       UNCHANGED <<isAuthenticated, accessToken, localStorage, intervalId>>]_vars

\* nothing the App awaits is outstanding and no timer is set: whatever it
\* shows now, it shows until the user acts
Settled ==
  /\ program = "App"
  /\ phase = "mounted"
  /\ exchange = None
  /\ fetches = EmptyBag
  /\ intervalId = None

\* C14: an authentication failure ends in the logged-out view: once the
\* work a page load started has settled with the App not authenticated,
\* isLoading is false, so the login button is shown and not the loading
\* indicator.
C14_FailureShowsLogin == (Settled /\ ~isAuthenticated) => ~isLoading

\* C15: after a successful exchange the client holds the whole token set in
\* durable storage, at both call sites: the access token, the refresh token
\* and an expiry instant of the exchange time plus the provider's expires_in.
C15_ExchangeStoresTokenSet ==
  /\ (libEv.op = "exchangeOk") =>
       /\ localStorage.access_token = Some("AT1")
       /\ localStorage.refresh_token = Some("RT1")
       /\ localStorage.token_expiry = Some(NumString(now + 1 * 1000))
  /\ (appEv.op = "exchangeResponse" /\ IsOk(appEv.status)) =>
       /\ localStorage.spotify_access_token \in {Some(t) : t \in Tokens}
       /\ localStorage.refresh_token # None
       /\ localStorage.token_expiry # None

\* the provider answered the currently-playing request of a /current-track
\* call that carried a token with 204, an empty body or a body without item
NothingPlaying ==
  /\ relayReq.route = "/current-track"
  /\ relayReq.input \in {Some(<<"Bearer", t>>) : t \in Tokens}
  /\ relayReq.upstream[1].kind = "ok"
  /\ relayReq.upstream[1].status = 204 \/ relayReq.upstream[1].item = None

\* C16: when the provider reports nothing playing, /current-track answers
\* 204 with no body, once; and a 204 makes the App set track to null and
\* changes nothing else of the session: it is authenticated, its token is
\* kept in memory and in storage, and the poll timer of a session that
\* holds a token keeps running.
C16_NothingPlayingIsNullTrack ==
  /\ [](NothingPlaying => relayOut.responses = <<Reply(204, None, NoBody)>>)
  /\ [][(appEv'.op = "fetchResponse" /\ appEv'.status = 204) =>
          /\ track' = None
          /\ isAuthenticated'
          /\ UNCHANGED <<accessToken, localStorage, intervalId>>
          /\ accessToken # None => (accessToken' # None /\ intervalId' # None)]_vars

\* a poll of a session showing a track was answered 204: the track is gone
\* and the session polls on
C16_Witness ==
  /\ appEv.op = "fetchResponse" /\ appEv.status = 204 /\ appEv.site = "poll"
  /\ appEv.hadTrack
  /\ track = None
  /\ isAuthenticated /\ accessToken # None /\ intervalId # None

\* the provider answered the currently-playing request of a /current-track
\* call that carried a token with an item whose album.images is empty
ItemWithoutImages ==
  /\ relayReq.route = "/current-track"
  /\ relayReq.input \in {Some(<<"Bearer", t>>) : t \in Tokens}
  /\ relayReq.upstream[1].kind = "ok"
  /\ relayReq.upstream[1].item # None
  /\ relayReq.upstream[1].item[1].nArtists > 0
  /\ relayReq.upstream[1].item[1].nImages = 0

\* C17: an item whose album.images is empty does not fail the poll:
\* /current-track answers 200 with a track that has the item's name, an
\* artist, an album and isPlaying.
C17_NoImagesStillATrack ==
  ItemWithoutImages =>
    /\ Len(relayOut.responses) = 1
    /\ relayOut.responses[1].status = 200
    /\ relayOut.responses[1].body.kind = "track"
    /\ relayOut.responses[1].body.name = relayReq.upstream[1].item[1].name
    /\ relayOut.responses[1].body.isPlaying = relayReq.upstream[1].is_playing

\* the provider was asked to exchange the code of a POST /exchange-token
TokenUpstreamCalled ==
  /\ relayReq.route = "/exchange-token"
  /\ TruthySeq(relayReq.input.code) /\ TruthyStr(relayReq.input.code_verifier)

CodeReceived ==
  relayOut.responses[1].location = Some(<<"?", "code", "=">> \o relayReq.input.code[1])
\* the redirect of the GET /callback handled last carries an error
\* parameter and no code
ErrorReceived ==
  /\ TruthySeq(URLSearchParamsGet(relayOut.responses[1].location[1], "error"))
  /\ URLSearchParamsGet(relayOut.responses[1].location[1], "code") = None

\* C19 as written: a GET /callback that carries a code is answered with
\* the redirect carrying that code, also when it carries an error as well;
\* the error redirect is taken only when the request carries no code.
C19_CodeTakesPriority ==
  relayReq.route = "/callback" =>
    /\ TruthySeq(relayReq.input.code) => CodeReceived
    /\ ~TruthySeq(relayReq.input.code) => ErrorReceived

\* C19: a GET /callback that carries an error is answered with the redirect
\* carrying the error, also when it carries a code as well; one that carries a
\* code and no error is answered with the redirect carrying that code as
\* received; one that carries neither is answered with ?error=missing_code.
C19_ErrorTakesPriority ==
  relayReq.route = "/callback" =>
    /\ TruthySeq(relayReq.input.error) =>
         /\ ErrorReceived
         /\ URLSearchParamsGet(relayOut.responses[1].location[1], "error") = relayReq.input.error
    /\ (~TruthySeq(relayReq.input.error) /\ TruthySeq(relayReq.input.code)) => CodeReceived
    /\ (~TruthySeq(relayReq.input.error) /\ ~TruthySeq(relayReq.input.code)) =>
         relayOut.responses[1].location = Some(<<"?", "error", "=", "missing_code">>)

\* a request with both a code and an error was answered with the error
C19_Witness ==
  /\ relayReq.route = "/callback"
  /\ relayReq.input = [code |-> Some(<<"a">>), error |-> Some(<<"a">>)]
  /\ ErrorReceived

\* C20: when getCurrentlyPlaying found the stored token expired and its
\* refresh has succeeded, the protected request it sends next carries the
\* refreshed access token, the value now in storage.
C20_RequestUsesRefreshedToken ==
  (libEv.op = "refreshOk" /\ libEv.call.pc = "request1") =>
    libEv.call.sent = localStorage.access_token

\* C21: whenever the App is authenticated, an access token is stored under
\* spotify_access_token: a validateAndFetchTrack call still in flight when
\* clearAuth ran does not bring the authenticated view back when its
\* response arrives.
C21_AuthenticatedHasStoredToken ==
  isAuthenticated => localStorage.spotify_access_token # None

\* the mount effect finds a code in the URL and no verifier in sessionStorage
CodeWithoutVerifier ==
  /\ TruthySeq(URLSearchParamsGet(url, "code"))
  /\ ~TruthyStr(sessionStorage.spotify_code_verifier)

\* C22: a page load whose URL carries a code while no verifier is stored
\* sends no exchange request and ends unauthenticated, not loading, with
\* nothing awaited and spotify_access_token removed, whether or not a
\* token was stored before the load.
C22_CodeWithoutVerifierLogsOut ==
  [][(phase = "load" /\ appEv'.op = "mount" /\ CodeWithoutVerifier) =>
       /\ posts' = posts
       /\ exchange' = None /\ fetches' = EmptyBag
       /\ ~isAuthenticated' /\ accessToken' = None /\ intervalId' = None
       /\ ~isLoading'
       /\ localStorage'.spotify_access_token = None]_vars

\* a page with a code, no verifier and a token stored has mounted: the
\* token is gone and the login view is shown
C22_Witness ==
  /\ appEv.op = "mount" /\ appEv.hadToken
  /\ CodeWithoutVerifier
  /\ localStorage.spotify_access_token = None
  /\ ~isAuthenticated /\ ~isLoading

====
